---- MODULE Spec2Model ----
(***************************************************************************)
(* A state-machine model of src/model.py: the agents' memory-based         *)
(* production and perception (Agent.setup/speak/reinforce/listen/update),  *)
(* the pairwise interaction (LangChangeModel.action, run_interactions),    *)
(* the partitioning of networks (partition_network) and the step/stop      *)
(* scheduler (step, update, end, driven by model.run()).                   *)
(*                                                                         *)
(* Probabilities and frequencies are exact fractions <<num, den>> in       *)
(* lowest terms.  A random draw is a nondeterministic choice among the     *)
(* outcomes of non-zero probability.                                       *)
(***************************************************************************)
EXTENDS Integers, Sequences, FiniteSets, TLC

VARIABLES
    p,                  \* the parameters of the run (self.p)
    memory,             \* agent id -> sequence of tokens (Agent.memory)
    x,                  \* agent id -> fraction (Agent.x)
    updated_x,          \* agent id -> fraction (Agent.updated_x)
    A,                  \* agent id -> fraction (Agent.A)
    sampled_token,      \* agent id -> "None" | "A" | "B" (Agent.sampled_token)
    networks,           \* sequence of network records (self.networks)
    new_networks,       \* the list built by a partition round (step's local)
    partition_hierarchy,\* network id -> <<child id, child id>>
    record_data,        \* self.record_data
    iteration,          \* self.iteration
    id_counter,         \* the last object id handed out by the model
    t,                  \* the model's step counter (self.t)
    running,            \* the model's running flag (self.running)
    recorded,           \* set of <<t, network id, freq_a>> written by self.record
    reported,           \* what end() reported, or "None"
    pc,                 \* the position of the run
    ni,                 \* index of the network of the running for-loop
    k,                  \* interactions done for that network in this step
    agent,              \* the agent of the running interaction (0: none)
    neighbor            \* its neighbor (0: none)

vars == <<p, memory, x, updated_x, A, sampled_token, networks, new_networks,
          partition_hierarchy, record_data, iteration, id_counter, t, running,
          recorded, reported, pc, ni, k, agent, neighbor>>

-----------------------------------------------------------------------------
(* Bounds of the model *)

\* agent populations whose memories are drawn freely: 2..MaxSmallAgents
MaxSmallAgents == 3
\* memory_size ranges over 1..MaxMemory
MaxMemory == 2
\* interactions per step and network: time ranges over 1..MaxTime
MaxTime == 2
\* the step budget of a long run
MaxSteps == 21
\* how many of the balanced bipartitions of a network the bisection may return
MaxCuts == 2
\* how many entries of a list, from its head, random.choice may return
MaxPick == 3

(* Program constants *)

\* step(): "if self.iteration == 10"
PartitionPeriod == 10
\* step(): "if min([...]) <= 10"
StopSize == 10

-----------------------------------------------------------------------------
(* Fractions: count / len and the probabilities of the parameters *)

RECURSIVE GCD(_, _)
GCD(a, b) == IF b = 0 THEN a ELSE GCD(b, a % b)

Frac(n, d) == LET g == GCD(n, d) IN <<n \div g, d \div g>>

FracAdd(a, b) == Frac(a[1] * b[2] + b[1] * a[2], a[2] * b[2])

FracLess(a, b) == a[1] * b[2] < b[1] * a[2]

Zero == Frac(0, 1)

One == Frac(1, 1)

RECURSIVE FracSum(_)
FracSum(s) == IF s = <<>> THEN Zero ELSE FracAdd(Head(s), FracSum(Tail(s)))

\* sum(values) / len(values)
Mean(s) == LET total == FracSum(s) IN Frac(total[1], total[2] * Len(s))

-----------------------------------------------------------------------------
(* Tokens and memories *)

Lingueme == <<"A", "B">>

Tokens == {Lingueme[1], Lingueme[2]}

\* np.count_nonzero(memory == 'A')
CountA(mem) == Cardinality({i \in DOMAIN mem : mem[i] = "A"})

\* np.count_nonzero(memory == 'A') / len(memory)
FrequencyOfA(mem) == Frac(CountA(mem), Len(mem))

\* np.random.choice(lingueme, size=1, p=[q, 1-q])[0]: the tokens of non-zero probability
ChoiceToken(q) ==
    {tok \in Tokens : \/ tok = Lingueme[1] /\ FracLess(Zero, q)
                      \/ tok = Lingueme[2] /\ FracLess(q, One)}

\* np.random.choice(lingueme, size=size, p=[q, 1-q])
ChoiceMemory(size, q) == [1..size -> ChoiceToken(q)]

\* np.delete(memory, random_index)
Delete(mem, i) == SubSeq(mem, 1, i - 1) \o SubSeq(mem, i + 1, Len(mem))

\* a replacement that appends the token and removes nothing
Replace_NoDelete(mem, tok) == {Append(mem, tok)}

\* random_index = randint(len(memory)); delete; append(token): every outcome
Replace(mem, tok) == {Append(Delete(mem, i), tok) : i \in 1..Len(mem)}

\* random.random() < selection_pressure: the outcomes that can happen
Bernoulli(q) == {b \in BOOLEAN : IF b THEN FracLess(Zero, q) ELSE FracLess(q, One)}

-----------------------------------------------------------------------------
(* Agent.listen: every memory the call can leave *)

ReplaceAll(mems, tok) == UNION {Replace(m, tok) : m \in mems}

\* the memories a replacement gated by random.random() < selection_pressure leaves
ReplaceUnderPressure(mems, tok) ==
    UNION {IF b THEN ReplaceAll(mems, tok) ELSE mems : b \in Bernoulli(p.selection_pressure)}

\* listen() that makes the neutral replacement twice
listen_NeutralTwice(self, neighbour) ==
    ReplaceAll(ReplaceAll({memory[self]}, sampled_token[neighbour]),
               sampled_token[neighbour])

\* listen() whose neutral replacement ignores the neutral_change toggle
listen_NeutralAlways(self, neighbour) ==
    ReplaceAll({memory[self]}, sampled_token[neighbour])

\* listen() whose two selections stay independent when both are enabled
listen_SelectionsIndependent(self, neighbour) ==
    LET tok == sampled_token[neighbour]
        role == self > p.n /\ neighbour <= p.n
        fit == sampled_token[self] = "B" /\ tok = "A"
        m1 == IF p.neutral_change THEN ReplaceAll({memory[self]}, tok) ELSE {memory[self]}
        m2 == IF p.interactor_selection /\ role THEN ReplaceAll(m1, tok) ELSE m1
    IN  IF p.replicator_selection /\ fit THEN ReplaceUnderPressure(m2, tok) ELSE m2

listen(self, neighbour) ==
    LET tok == sampled_token[neighbour]
        role == self > p.n /\ neighbour <= p.n
        fit == sampled_token[self] = "B" /\ tok = "A"
        m0 == {memory[self]}
        m1 == IF p.neutral_change THEN ReplaceAll(m0, tok) ELSE m0
    IN  IF p.replicator_selection /\ p.interactor_selection
        THEN IF role /\ fit THEN ReplaceUnderPressure(m1, tok) ELSE m1
        ELSE LET m2 == IF p.interactor_selection /\ role THEN ReplaceAll(m1, tok) ELSE m1
             IN  IF p.replicator_selection /\ fit THEN ReplaceUnderPressure(m2, tok) ELSE m2

-----------------------------------------------------------------------------
(* Graphs and networks.  A graph is [nodes: sequence, edges: set of 2-sets];
   a network is [id, nodes, edges, positions], positions being the sequence
   of <<agent, node>> in the order the agents were added. *)

Min(a, b) == IF a < b THEN a ELSE b

Range(s) == {s[i] : i \in DOMAIN s}

\* nx.watts_strogatz_graph(n, kk, 0): the ring lattice, no edge rewired
watts_strogatz_graph(n, kk) ==
    [nodes |-> [i \in 1..n |-> i],
     edges |-> IF kk = n
               THEN {{u, v} : u, v \in 1..n} \ {{u} : u \in 1..n}
               ELSE {{u, ((u - 1 + j) % n) + 1} : u \in 1..n, j \in 1..(kk \div 2)}]

\* ap.Network(model, graph) with the id the model hands out
Network(id, graph) ==
    [id |-> id, nodes |-> graph.nodes, edges |-> graph.edges, positions |-> <<>>]

\* Network.add_agents(agents, positions): zip(agents, positions)
add_agents(net, agents, positions) ==
    [net EXCEPT !.positions =
        @ \o [i \in 1..Min(Len(agents), Len(positions)) |-> <<agents[i], positions[i]>>]]

\* network.agents
NetworkAgents(net) == [i \in DOMAIN net.positions |-> net.positions[i][1]]

\* len(network.agents)
NetworkSize(net) == Len(net.positions)

\* network.positions[agent]
PositionOf(net, a) ==
    net.positions[CHOOSE i \in DOMAIN net.positions : net.positions[i][1] = a][2]

\* network.neighbors(agent): the agents on the nodes adjacent to the agent's node
neighbors(net, a) ==
    SelectSeq(NetworkAgents(net),
              LAMBDA b : {PositionOf(net, b), PositionOf(net, a)} \in net.edges)

\* self.random.choice(list): one of the first MaxPick entries of the list
choice(list) == {list[i] : i \in 1..Min(MaxPick, Len(list))}

\* nx.community.kernighan_lin_bisection(graph): a pair of node sets of
\* n // 2 and (n + 1) // 2 nodes; here MaxCuts of the possible pairs, each a
\* run of consecutive nodes and the rest
kernighan_lin_bisection(graph) ==
    LET n == Len(graph.nodes)
        h == n \div 2
    IN  {LET first == {graph.nodes[((s + i) % n) + 1] : i \in 0..(h - 1)}
         IN  <<first, Range(graph.nodes) \ first>> : s \in 0..(Min(MaxCuts, n) - 1)}

\* network.graph.subgraph(nodes)
subgraph(graph, part) ==
    [nodes |-> SelectSeq(graph.nodes, LAMBDA v : v \in part),
     edges |-> {e \in graph.edges : e \subseteq part}]

\* self.agents
AgentList == [i \in 1..p.agents |-> i]

\* children that are both built from the first half of the bisection
Subnetworks_FirstHalfTwice(net, partition, firstId) ==
    [i \in 1..2 |->
        LET sub == Network(firstId + i - 1, subgraph(net, partition[1]))
        IN  add_agents(sub, AgentList, sub.nodes)]

\* the children partition_network builds from a bisection <<A, B>>
Subnetworks(net, partition, firstId) ==
    [i \in 1..2 |->
        LET sub == Network(firstId + i - 1, subgraph(net, partition[i]))
        IN  add_agents(sub, AgentList, sub.nodes)]

\* a hierarchy entry filed under the first child's id
record_partition_UnderChild(hierarchy, net, subnetworks) ==
    (subnetworks[1].id :> [i \in DOMAIN subnetworks |-> subnetworks[i].id]) @@ hierarchy

\* self.partition_hierarchy[network.id] = [subnetwork.id for subnetwork in subnetworks]
record_partition(hierarchy, net, subnetworks) ==
    (net.id :> [i \in DOMAIN subnetworks |-> subnetworks[i].id]) @@ hierarchy

\* min([len(subnet.agents) for subnet in self.networks])
MinSize(nets) ==
    CHOOSE m \in {NetworkSize(nets[i]) : i \in DOMAIN nets} :
        \A i \in DOMAIN nets : m <= NetworkSize(nets[i])

\* a stop test that lets a network of exactly the stop size run on
StopCondition_Below(nets) == MinSize(nets) < StopSize

\* the stop test of step()
StopCondition(nets) == MinSize(nets) <= StopSize

\* a partition test that is due in the first step already
PartitionDue_FirstStep(it) == it = 1

\* a partition test that fires one step early
PartitionDue_Early(it) == it = PartitionPeriod - 1

\* the partition test of step()
PartitionDue(it) == it = PartitionPeriod

-----------------------------------------------------------------------------
(* The parameters of a run *)

Half == Frac(1, 2)

\* the source's parameters: selection_pressure 0.1
DefaultPressure == Frac(1, 10)

\* the sizes <<agents, memory_size, time>> of the small populations: from the
\* smallest run (2 agents, 1 slot, 1 interaction per step) each grows alone
SmallSizes ==
    {<<n, 1, 1>> : n \in 2..MaxSmallAgents}
        \cup {<<2, m, 1>> : m \in 1..MaxMemory}
        \cup {<<2, 1, i>> : i \in 1..MaxTime}

\* small populations: every mechanism, memories drawn freely; every threshold n
\* where interactor_selection reads it and every kind of selection_pressure where
\* replicator_selection reads it
SmallParameters ==
    {q \in [agents : 2..MaxSmallAgents,
            memory_size : 1..MaxMemory,
            initial_frequency : {Zero, Half, One},
            number_of_neighbors : {2},
            network_density : {Zero},
            interactor_selection : BOOLEAN,
            replicator_selection : BOOLEAN,
            neutral_change : BOOLEAN,
            selection_pressure : {Zero, Half, One, DefaultPressure},
            n : 0..MaxSmallAgents,
            time : 1..MaxTime,
            steps : {MaxSteps}] :
        /\ <<q.agents, q.memory_size, q.time>> \in SmallSizes
        /\ q.n <= q.agents
        /\ (~q.interactor_selection => q.n = 0)
        /\ (q.selection_pressure = DefaultPressure <=> ~q.replicator_selection)}

\* populations at and above the stop size, large enough to be partitioned once
\* and twice: the mechanisms of the source's parameters, every memory all B
LargeParameters ==
    [agents : {StopSize, StopSize + 1, 2 * StopSize + 2},
     memory_size : {1},
     initial_frequency : {Zero},
     number_of_neighbors : {2},
     network_density : {Zero},
     interactor_selection : {FALSE},
     replicator_selection : {FALSE},
     neutral_change : {TRUE},
     selection_pressure : {DefaultPressure},
     n : {0},
     time : {1},
     steps : {1, MaxSteps}]

\* populations on a graph without edges: nx.watts_strogatz_graph joins each node
\* to number_of_neighbors // 2 nodes on either side, none when the parameter is 1
SparseParameters ==
    [agents : 2..MaxSmallAgents,
     memory_size : {1},
     initial_frequency : {Zero, Half, One},
     number_of_neighbors : {1},
     network_density : {Zero},
     interactor_selection : {FALSE},
     replicator_selection : {FALSE},
     neutral_change : {TRUE},
     selection_pressure : {DefaultPressure},
     n : {0},
     time : {1},
     steps : {MaxSteps}]

\* values no line of setup() looks at before the run: a threshold n below 0 or
\* above the population where interactor_selection reads it, a
\* selection_pressure below 0 or above 1 where replicator_selection reads it
UncheckedParameters ==
    {q \in [agents : {2},
            memory_size : {1},
            initial_frequency : {Half},
            number_of_neighbors : {2},
            network_density : {Zero},
            interactor_selection : BOOLEAN,
            replicator_selection : BOOLEAN,
            neutral_change : {FALSE},
            selection_pressure : {Frac(0 - 1, 2), Frac(3, 2), DefaultPressure},
            n : {0 - 1, 0, 3},
            time : {1},
            steps : {1}] :
        /\ q.interactor_selection # q.replicator_selection
        /\ (q.n # 0 <=> q.interactor_selection)
        /\ (q.selection_pressure = DefaultPressure <=> ~q.replicator_selection)}

Parameters ==
    SmallParameters \cup LargeParameters \cup SparseParameters \cup UncheckedParameters

-----------------------------------------------------------------------------
(* Setup: Agent.setup for every agent, then LangChangeModel.setup *)

AllOf(tok, size) == [i \in 1..size |-> tok]

\* LangChangeModel.setup, "if self.p.interactor_selection": agent.x
setup_x(q, a) ==
    IF q.interactor_selection
    THEN IF a <= q.n THEN One ELSE Zero
    ELSE q.initial_frequency

\* LangChangeModel.setup: the memories an agent can hold after setup, given the
\* memory Agent.setup drew
setup_memory(q, a, drawn) ==
    IF q.interactor_selection
    THEN ChoiceMemory(q.memory_size, setup_x(q, a))
    ELSE {drawn}

\* one draw from each of a sequence of sets
RECURSIVE Draws(_)
Draws(sets) ==
    IF sets = <<>> THEN {<<>>}
    ELSE {<<first>> \o rest : first \in Head(sets), rest \in Draws(Tail(sets))}

Init ==
    \E q \in Parameters :
    \E drawn \in [1..q.agents -> ChoiceMemory(q.memory_size, q.initial_frequency)] :
    \E mem \in Draws([a \in 1..q.agents |-> setup_memory(q, a, drawn[a])]) :
        /\ p = q
        /\ memory = mem
        /\ x = [a \in 1..q.agents |-> setup_x(q, a)]
        /\ updated_x = [a \in 1..q.agents |-> q.initial_frequency]
        /\ A = [a \in 1..q.agents |-> FrequencyOfA(drawn[a])]
        /\ sampled_token = [a \in 1..q.agents |-> "None"]
        /\ networks =
             LET graph == watts_strogatz_graph(q.agents, q.number_of_neighbors)
                 net == Network(q.agents + 1, graph)
             IN  <<add_agents(net, [i \in 1..q.agents |-> i], net.nodes)>>
        /\ new_networks = <<>>
        /\ partition_hierarchy = <<>>
        /\ record_data = TRUE
        /\ iteration = 0
        /\ id_counter = q.agents + 1
        /\ t = 0
        /\ running = TRUE
        /\ recorded = {}
        /\ reported = "None"
        /\ pc = "update"
        /\ ni = 0
        /\ k = 0
        /\ agent = 0
        /\ neighbor = 0

-----------------------------------------------------------------------------
(* Agent operations *)

\* Agent.speak: the tokens it can produce
speak(self) == ChoiceToken(updated_x[self])

\* a reinforce that appends the token the other party of the interaction spoke
reinforce_OtherToken(self) ==
    Replace(memory[self], sampled_token[IF self = agent THEN neighbor ELSE agent])

\* Agent.reinforce: the memories it can leave
reinforce(self) == Replace(memory[self], sampled_token[self])

\* Agent.update: self.A
update_A(self) == FrequencyOfA(memory[self])

\* an update that leaves updated_x as it was
update_x_Stale(self) == updated_x[self]

\* Agent.update: self.updated_x
update_x(self) == FrequencyOfA(memory[self])

-----------------------------------------------------------------------------
(* LangChangeModel.action: the operations of one interaction, in order *)

\* an interaction whose listens come before its reinforces
action_ListenBeforeReinforce ==
    <<"agent.speak", "neighbor.speak",
      "agent.listen", "neighbor.listen",
      "agent.reinforce", "neighbor.reinforce",
      "agent.update", "neighbor.update">>

action ==
    <<"agent.speak", "neighbor.speak",
      "agent.reinforce", "neighbor.reinforce",
      "agent.listen", "neighbor.listen",
      "agent.update", "neighbor.update">>

IndexOf(op) == CHOOSE i \in DOMAIN action : action[i] = op

\* where the run is after operation op of an interaction: the next operation, or
\* the next iteration of the loops of run_interactions and step
Continue(op) ==
    IF IndexOf(op) < Len(action)
    THEN [pc |-> action[IndexOf(op) + 1], ni |-> ni, k |-> k,
          agent |-> agent, neighbor |-> neighbor]
    ELSE IF k + 1 < p.time
    THEN [pc |-> "choose", ni |-> ni, k |-> k + 1, agent |-> 0, neighbor |-> 0]
    ELSE IF ni < Len(networks)
    THEN [pc |-> "choose", ni |-> ni + 1, k |-> 0, agent |-> 0, neighbor |-> 0]
    ELSE [pc |-> "iterate", ni |-> 0, k |-> 0, agent |-> 0, neighbor |-> 0]

Advance(op) ==
    /\ pc' = Continue(op).pc
    /\ ni' = Continue(op).ni
    /\ k' = Continue(op).k
    /\ agent' = Continue(op).agent
    /\ neighbor' = Continue(op).neighbor

Scheduler == <<networks, new_networks, partition_hierarchy, record_data, iteration,
               id_counter, t, running, recorded, reported, p>>

Speak(op, self) ==
    /\ pc = op
    /\ \E tok \in speak(self) :
           sampled_token' = [sampled_token EXCEPT ![self] = tok]
    /\ Advance(op)
    /\ UNCHANGED <<memory, x, updated_x, A, Scheduler>>

Reinforce(op, self) ==
    /\ pc = op
    /\ \E mem \in reinforce(self) : memory' = [memory EXCEPT ![self] = mem]
    /\ Advance(op)
    /\ UNCHANGED <<sampled_token, x, updated_x, A, Scheduler>>

\* a listen() that writes the replaced memory to the neighbour it listens to
Listen_WritesNeighbour(op, self, neighbour) ==
    /\ pc = op
    /\ \E mem \in listen(self, neighbour) : memory' = [memory EXCEPT ![neighbour] = mem]
    /\ Advance(op)
    /\ UNCHANGED <<sampled_token, x, updated_x, A, Scheduler>>

Listen(op, self, neighbour) ==
    /\ pc = op
    /\ \E mem \in listen(self, neighbour) : memory' = [memory EXCEPT ![self] = mem]
    /\ Advance(op)
    /\ UNCHANGED <<sampled_token, x, updated_x, A, Scheduler>>

AgentUpdate(op, self) ==
    /\ pc = op
    /\ A' = [A EXCEPT ![self] = update_A(self)]
    /\ updated_x' = [updated_x EXCEPT ![self] = update_x(self)]
    /\ Advance(op)
    /\ UNCHANGED <<memory, sampled_token, x, Scheduler>>

AgentSpeak == Speak("agent.speak", agent)

NeighborSpeak == Speak("neighbor.speak", neighbor)

AgentReinforce == Reinforce("agent.reinforce", agent)

NeighborReinforce == Reinforce("neighbor.reinforce", neighbor)

AgentListen == Listen("agent.listen", agent, neighbor)

NeighborListen == Listen("neighbor.listen", neighbor, agent)

AgentUpdates == AgentUpdate("agent.update", agent)

NeighborUpdates == AgentUpdate("neighbor.update", neighbor)

-----------------------------------------------------------------------------
(* LangChangeModel.run_interactions: one pass of its loop chooses the pair *)

ChoosePair ==
    /\ pc = "choose"
    /\ \E a \in choice(NetworkAgents(networks[ni])) :
       \E b \in choice(neighbors(networks[ni], a)) :
           /\ agent' = a
           /\ neighbor' = b
    /\ pc' = action[1]
    /\ UNCHANGED <<memory, x, updated_x, A, sampled_token, Scheduler, ni, k>>

\* the chosen agent has no neighbor in the network: self.random.choice of the
\* empty list raises IndexError, nothing catches it and run() is left at once
ChoosePairFails ==
    /\ pc = "choose"
    /\ \E a \in choice(NetworkAgents(networks[ni])) :
           neighbors(networks[ni], a) = <<>>
    /\ pc' = "crashed"
    /\ UNCHANGED <<memory, x, updated_x, A, sampled_token, Scheduler, ni, k,
                   agent, neighbor>>

-----------------------------------------------------------------------------
(* model.run(): update() after setup and after every step, then the next step
   while the model is running and the step budget lasts, then end() *)

\* an update() that records whether or not record_data is set
update_Always(nets) ==
    {<<t, nets[i].id,
       Mean([j \in DOMAIN nets[i].positions |-> A[nets[i].positions[j][1]]])>> :
         i \in DOMAIN nets}

\* LangChangeModel.update: what it records
update(nets) ==
    IF record_data
    THEN {<<t, nets[i].id,
            Mean([j \in DOMAIN nets[i].positions |-> A[nets[i].positions[j][1]]])>> :
              i \in DOMAIN nets}
    ELSE {}

Update ==
    /\ pc = "update"
    /\ recorded' = recorded \cup update(networks)
    /\ running' = (running /\ t < p.steps)
    /\ pc' = IF running' THEN "step" ELSE "end"
    /\ UNCHANGED <<p, memory, x, updated_x, A, sampled_token, networks, new_networks,
                   partition_hierarchy, record_data, iteration, id_counter, t,
                   reported, ni, k, agent, neighbor>>

\* a step begins: the run_interactions loop over self.networks starts
StepBegin ==
    /\ pc = "step"
    /\ t' = t + 1
    /\ ni' = 1
    /\ k' = 0
    /\ pc' = "choose"
    /\ UNCHANGED <<p, memory, x, updated_x, A, sampled_token, networks, new_networks,
                   partition_hierarchy, record_data, iteration, id_counter, running,
                   recorded, reported, agent, neighbor>>

\* step(): self.iteration += 1 and the test for a partition round
Iterate ==
    /\ pc = "iterate"
    /\ IF PartitionDue(iteration + 1)
       THEN /\ iteration' = 0
            /\ new_networks' = <<>>
            /\ ni' = 1
            /\ pc' = "partition"
       ELSE /\ iteration' = iteration + 1
            /\ pc' = "stopcheck"
            /\ UNCHANGED <<new_networks, ni>>
    /\ UNCHANGED <<p, memory, x, updated_x, A, sampled_token, networks,
                   partition_hierarchy, record_data, id_counter, t, running,
                   recorded, reported, k, agent, neighbor>>

\* one pass of the partition loop of step(): partition_network(network) and
\* new_networks.extend; after the last network, self.networks = new_networks
PartitionNetwork ==
    /\ pc = "partition"
    /\ \E partition \in kernighan_lin_bisection(networks[ni]) :
         LET subnetworks == Subnetworks(networks[ni], partition, id_counter + 1)
         IN  /\ partition_hierarchy' =
                   record_partition(partition_hierarchy, networks[ni], subnetworks)
             /\ id_counter' = id_counter + Len(subnetworks)
             /\ new_networks' = new_networks \o subnetworks
    /\ IF ni < Len(networks)
       THEN /\ ni' = ni + 1
            /\ pc' = "partition"
            /\ UNCHANGED networks
       ELSE /\ ni' = 0
            /\ pc' = "stopcheck"
            /\ networks' = new_networks'
    /\ UNCHANGED <<p, memory, x, updated_x, A, sampled_token, record_data, iteration,
                   t, running, recorded, reported, k, agent, neighbor>>

\* step(): the stop test
StopCheck ==
    /\ pc = "stopcheck"
    /\ IF StopCondition(networks)
       THEN /\ record_data' = FALSE
            /\ running' = FALSE
       ELSE UNCHANGED <<record_data, running>>
    /\ pc' = "update"
    /\ UNCHANGED <<p, memory, x, updated_x, A, sampled_token, networks, new_networks,
                   partition_hierarchy, iteration, id_counter, t, recorded, reported,
                   ni, k, agent, neighbor>>

\* LangChangeModel.end
End ==
    /\ pc = "end"
    /\ reported' = [final_x |-> Mean(updated_x),
                    partition_hierarchy |-> partition_hierarchy]
    /\ pc' = "done"
    /\ UNCHANGED <<p, memory, x, updated_x, A, sampled_token, networks, new_networks,
                   partition_hierarchy, record_data, iteration, id_counter, t, running,
                   recorded, ni, k, agent, neighbor>>

Next ==
    \/ Update
    \/ StepBegin
    \/ ChoosePair
    \/ ChoosePairFails
    \/ AgentSpeak
    \/ NeighborSpeak
    \/ AgentReinforce
    \/ NeighborReinforce
    \/ AgentListen
    \/ NeighborListen
    \/ AgentUpdates
    \/ NeighborUpdates
    \/ Iterate
    \/ PartitionNetwork
    \/ StopCheck
    \/ End

Spec == Init /\ [][Next]_vars

-----------------------------------------------------------------------------
(* partition_network applied to any network of 2..MaxNodes nodes: the networks
   are the induced subgraphs of the ring of MaxNodes nodes *)

MaxNodes == 6

PartitionParameters ==
    [agents |-> MaxNodes, memory_size |-> 1, initial_frequency |-> Zero,
     number_of_neighbors |-> 2, network_density |-> Zero,
     interactor_selection |-> FALSE, replicator_selection |-> FALSE,
     neutral_change |-> TRUE, selection_pressure |-> DefaultPressure,
     n |-> 0, time |-> 1, steps |-> MaxSteps]

InitPartition ==
    \E part \in {S \in SUBSET (1..MaxNodes) : Cardinality(S) >= 2} :
        /\ p = PartitionParameters
        /\ memory = [a \in 1..MaxNodes |-> AllOf("B", 1)]
        /\ x = [a \in 1..MaxNodes |-> Zero]
        /\ updated_x = [a \in 1..MaxNodes |-> Zero]
        /\ A = [a \in 1..MaxNodes |-> Zero]
        /\ sampled_token = [a \in 1..MaxNodes |-> "None"]
        /\ networks =
             LET graph == subgraph(watts_strogatz_graph(MaxNodes, 2), part)
                 net == Network(MaxNodes + 1, graph)
             IN  <<add_agents(net, [i \in 1..MaxNodes |-> i], net.nodes)>>
        /\ new_networks = <<>>
        /\ partition_hierarchy = <<>>
        /\ record_data = TRUE
        /\ iteration = 0
        /\ id_counter = MaxNodes + 1
        /\ t = PartitionPeriod
        /\ running = TRUE
        /\ recorded = {}
        /\ reported = "None"
        /\ pc = "partition"
        /\ ni = 1
        /\ k = 0
        /\ agent = 0
        /\ neighbor = 0

SpecPartition == InitPartition /\ [][PartitionNetwork]_vars

-----------------------------------------------------------------------------
(* Claims *)

\* the number of copies of tok in mem
Count(mem, tok) == Cardinality({i \in DOMAIN mem : mem[i] = tok})

\* the fraction f is exactly num / den
IsQuotient(f, num, den) == f[1] * den = num * f[2]

\* the positions of the run inside an interaction
InInteraction == pc \in Range(action)

\* C1: in every reachable state, under every combination of the mechanisms,
\* every agent's memory has exactly memory_size elements.
C1_MemoryLength ==
    \A a \in DOMAIN memory : Len(memory[a]) = p.memory_size

\* with all three mechanisms on, both agents of an interaction have reinforced
\* and listened, the memories holding more than one slot
C1_Witness ==
    /\ pc = "agent.update"
    /\ p.neutral_change /\ p.interactor_selection /\ p.replicator_selection
    /\ p.memory_size = MaxMemory
    /\ Len(memory[agent]) = MaxMemory

\* C2: an interaction runs agent.speak, neighbor.speak, agent.reinforce,
\* neighbor.reinforce, agent.listen, neighbor.listen, agent.update,
\* neighbor.update in this order on one pair; from the second speak on no
\* spoken token changes, a reinforce or listen changes only the memory of the
\* agent that runs it, and a memory a listen changes ends with the token the
\* other party spoke.
C2_InteractionOrder ==
    [][/\ (pc = "choose" /\ agent' # 0 => pc' = "agent.speak")
       /\ (pc = "agent.speak" => pc' = "neighbor.speak")
       /\ (pc = "neighbor.speak" => pc' = "agent.reinforce")
       /\ (pc = "agent.reinforce" => pc' = "neighbor.reinforce")
       /\ (pc = "neighbor.reinforce" => pc' = "agent.listen")
       /\ (pc = "agent.listen" => pc' = "neighbor.listen")
       /\ (pc = "neighbor.listen" => pc' = "agent.update")
       /\ (pc = "agent.update" => pc' = "neighbor.update")
       /\ (pc = "neighbor.update" => pc' \in {"choose", "iterate"})
       /\ (InInteraction /\ pc # "neighbor.update" =>
              agent' = agent /\ neighbor' = neighbor /\ agent # neighbor)
       /\ (pc = "agent.speak" =>
              \A a \in DOMAIN sampled_token :
                  a # agent => sampled_token'[a] = sampled_token[a])
       /\ (pc = "neighbor.speak" =>
              \A a \in DOMAIN sampled_token :
                  a # neighbor => sampled_token'[a] = sampled_token[a])
       /\ (InInteraction /\ pc \notin {"agent.speak", "neighbor.speak"} =>
              sampled_token' = sampled_token)
       /\ (pc \in {"agent.speak", "neighbor.speak", "agent.update", "neighbor.update"} =>
              memory' = memory)
       /\ (pc \in {"agent.reinforce", "agent.listen"} =>
              \A a \in DOMAIN memory : a # agent => memory'[a] = memory[a])
       /\ (pc \in {"neighbor.reinforce", "neighbor.listen"} =>
              \A a \in DOMAIN memory : a # neighbor => memory'[a] = memory[a])
       /\ (pc = "agent.listen" /\ memory'[agent] # memory[agent] =>
              memory'[agent][Len(memory'[agent])] = sampled_token[neighbor])
       /\ (pc = "neighbor.listen" /\ memory'[neighbor] # memory[neighbor] =>
              memory'[neighbor][Len(memory'[neighbor])] = sampled_token[agent])
       /\ (pc \in {"agent.update", "neighbor.update"} => pc' # pc /\ UNCHANGED x)
    ]_vars

\* the neighbor is about to listen to a token that differs from its own, after
\* the agent listened and took the neighbor's token
C2_Witness ==
    /\ pc = "neighbor.listen"
    /\ p.neutral_change
    /\ sampled_token[agent] # sampled_token[neighbor]
    /\ memory[agent][Len(memory[agent])] = sampled_token[neighbor]

\* C3: the run stops on the first step at whose end some active network has
\* <= 10 agents: no step begins after a completed step while an active network
\* has <= 10 agents, after a completed step the model runs on only if every
\* active network has more than 10, and recording is switched off only where
\* an active network has <= 10.
C3_StopsAtFirstSmallNetwork ==
    /\ (pc = "step" => running)
    /\ (pc \in {"step", "update"} /\ t >= 1 /\ running => MinSize(networks) > 10)
    /\ (InInteraction \/ pc \in {"choose", "iterate", "partition"} =>
            running /\ record_data)
    /\ (~record_data => ~running /\ MinSize(networks) <= 10)

\* a run of a population of 22 that went on after its first partition (two
\* networks of 11) has stopped in the step of its second partition
C3_Witness ==
    /\ pc = "end"
    /\ ~record_data
    /\ t = 2 * PartitionPeriod
    /\ Len(networks) = 4
    /\ MinSize(networks) <= 10

\* C4: partition_network is never called on a network of fewer than 2 nodes:
\* every network of a partition round has more than 10 agents and nodes.
C4_PartitionsOnlyLargeNetworks ==
    pc = "partition" =>
        \A i \in DOMAIN networks :
            /\ NetworkSize(networks[i]) > 10
            /\ Len(networks[i].nodes) >= 2
            /\ Len(networks[i].nodes) > 10

\* the second network of the second partition round is about to be partitioned
C4_Witness ==
    /\ pc = "partition"
    /\ t = 2 * PartitionPeriod
    /\ ni = 2
    /\ Len(new_networks) = 2

\* C5: partition_network on a network of k >= 2 nodes returns exactly two
\* children; their node sets are disjoint, together the parent's node set, each
\* of at least 1 node and without a repeated node, of sizes that differ by <= 1.
C5_PartitionIsBalancedBisection ==
    [][pc = "partition" /\ Len(networks[ni].nodes) >= 2 =>
          LET parent == networks[ni]
              children == SubSeq(new_networks', Len(new_networks) + 1, Len(new_networks'))
              first == Range(children[1].nodes)
              second == Range(children[2].nodes)
          IN  /\ Len(children) = 2
              /\ first \cap second = {}
              /\ first \cup second = Range(parent.nodes)
              /\ Cardinality(first) = Len(children[1].nodes)
              /\ Cardinality(second) = Len(children[2].nodes)
              /\ Cardinality(first) >= 1
              /\ Cardinality(second) >= 1
              /\ Cardinality(first) - Cardinality(second) \in {-1, 0, 1}
    ]_vars

\* a network of 3 nodes has been partitioned into children of 1 and 2 nodes
C5_Witness ==
    /\ pc = "stopcheck"
    /\ Len(new_networks) = 2
    /\ Len(new_networks[1].nodes) = 1
    /\ Len(new_networks[2].nodes) = 2

\* the agents of a network, as a set
Members(net) == Range(NetworkAgents(net))

\* C6: outside a partition round the agent sets of the active networks are
\* pairwise disjoint and together the whole population.
C6_AgentsArePartitioned ==
    pc # "partition" =>
        /\ \A i, j \in DOMAIN networks :
               i # j => Members(networks[i]) \cap Members(networks[j]) = {}
        /\ UNION {Members(networks[i]) : i \in DOMAIN networks} = 1..p.agents

\* the ids of the children of id in hierarchy h
Children(h, id) == IF id \in DOMAIN h THEN Range(h[id]) ELSE {}

RECURSIVE Reach(_, _, _)
Reach(h, ids, depth) ==
    IF depth = 0 THEN ids
    ELSE ids \cup Reach(h, UNION {Children(h, id) : id \in ids}, depth - 1)

\* the ids below id in hierarchy h
Descendants(h, id) == Reach(h, Children(h, id), Cardinality(DOMAIN h))

\* C7: outside a partition round partition_hierarchy is a binary tree rooted at
\* the original network's id: every key has exactly 2 distinct children, no id
\* is a child of two keys or below itself, every id is the root or below it,
\* and the ids that are no keys are exactly the ids of the active networks.
C7_HierarchyIsBinaryTree ==
    pc # "partition" =>
        LET h == partition_hierarchy
            root == p.agents + 1
            ids == {root} \cup UNION {Children(h, key) : key \in DOMAIN h}
        IN  /\ \A key \in DOMAIN h : Len(h[key]) = 2 /\ h[key][1] # h[key][2]
            /\ \A key1, key2 \in DOMAIN h :
                   key1 # key2 => Children(h, key1) \cap Children(h, key2) = {}
            /\ \A key \in DOMAIN h : key \notin Descendants(h, key)
            /\ DOMAIN h \subseteq ids
            /\ ids \subseteq {root} \cup Descendants(h, root)
            /\ root \notin Descendants(h, root)
            /\ ids \ DOMAIN h = {networks[i].id : i \in DOMAIN networks}
            /\ Cardinality(ids \ DOMAIN h) = Len(networks)

\* the run has stopped after two partition rounds: three keys, four leaves
C7_Witness ==
    /\ pc = "end"
    /\ ~running
    /\ Cardinality(DOMAIN partition_hierarchy) = 3
    /\ Len(networks) = 4

\* C8: whenever no interaction is in progress, in particular when the
\* aggregate is recorded, every agent's A is the number of 'A' in its memory
\* divided by the memory's length.
C8_FrequencyIsLive ==
    ~InInteraction =>
        \A a \in DOMAIN A : IsQuotient(A[a], Count(memory[a], "A"), Len(memory[a]))

\* C9: right after update() on an agent its A and its updated_x are exactly
\* (count of 'A' in its memory) / (memory length), and update() leaves every
\* memory and every spoken token as they were.
C9_UpdateIsExact ==
    [][/\ (pc = "agent.update" =>
              /\ IsQuotient(A'[agent], Count(memory'[agent], "A"), Len(memory'[agent]))
              /\ IsQuotient(updated_x'[agent], Count(memory'[agent], "A"),
                            Len(memory'[agent]))
              /\ memory' = memory
              /\ sampled_token' = sampled_token)
       /\ (pc = "neighbor.update" =>
              /\ IsQuotient(A'[neighbor], Count(memory'[neighbor], "A"),
                            Len(memory'[neighbor]))
              /\ IsQuotient(updated_x'[neighbor], Count(memory'[neighbor], "A"),
                            Len(memory'[neighbor]))
              /\ memory' = memory
              /\ sampled_token' = sampled_token)
    ]_vars

\* update() has just run on the agent and moved its production probability
\* away from the initial frequency, to the frequency of a mixed memory
C9_Witness ==
    /\ pc = "neighbor.update"
    /\ updated_x[agent] # p.initial_frequency
    /\ updated_x[agent] = Half
    /\ A[agent] = Half
    /\ Count(memory[agent], "A") = 1
    /\ Len(memory[agent]) = 2

\* memory after is memory before with one element removed and one copy of tok added
ReplacedOne(before, after, tok) ==
    /\ Len(after) = Len(before)
    /\ \E i \in DOMAIN before :
           \A other \in Tokens :
               Count(after, other) =
                   Count(before, other)
                       - (IF before[i] = other THEN 1 ELSE 0)
                       + (IF tok = other THEN 1 ELSE 0)

\* a reinforce of self changed nothing but self's memory
ReinforceFrame(self) ==
    /\ \A a \in DOMAIN memory : a # self => memory'[a] = memory[a]
    /\ sampled_token' = sampled_token
    /\ A' = A
    /\ updated_x' = updated_x
    /\ x' = x

\* C10: one reinforce() keeps the memory's length, removes exactly one element
\* and adds exactly one copy of the agent's own last spoken token, and changes
\* nothing else of the agent and nothing of any other agent.
C10_ReinforceReplacesOne ==
    [][/\ (pc = "agent.reinforce" =>
              /\ ReplacedOne(memory[agent], memory'[agent], sampled_token[agent])
              /\ ReinforceFrame(agent))
       /\ (pc = "neighbor.reinforce" =>
              /\ ReplacedOne(memory[neighbor], memory'[neighbor], sampled_token[neighbor])
              /\ ReinforceFrame(neighbor))
    ]_vars

\* the agent has reinforced a two-slot memory with a token that differs from
\* the neighbor's and from the slot it kept
C10_Witness ==
    /\ pc = "neighbor.reinforce"
    /\ Len(memory[agent]) = 2
    /\ memory[agent][2] = sampled_token[agent]
    /\ memory[agent][1] # sampled_token[agent]
    /\ sampled_token[neighbor] # sampled_token[agent]

-----------------------------------------------------------------------------
(* Claims about listen() *)

\* the listener and the speaker of the listen() the next step makes
Listener == IF pc = "agent.listen" THEN agent ELSE neighbor

Speaker == IF pc = "agent.listen" THEN neighbor ELSE agent

AtListen == pc \in {"agent.listen", "neighbor.listen"}

NeutralOnly ==
    p.neutral_change /\ ~p.interactor_selection /\ ~p.replicator_selection

\* C11: with neutral_change on and both selections off, every listen() makes
\* exactly one replacement: the listener's memory keeps its length, loses one
\* element and gains one copy of the token the neighbour last spoke, whatever
\* the ids of the two agents and whatever the tokens they produced.
C11_NeutralListenReplacesOne ==
    [][AtListen /\ NeutralOnly =>
           ReplacedOne(memory[Listener], memory'[Listener], sampled_token[Speaker])
    ]_vars

\* the agent has listened under neutral change alone: of its two slots one
\* still holds its own token, the other the neighbor's different token
C11_Witness ==
    /\ pc = "neighbor.listen"
    /\ NeutralOnly
    /\ Len(memory[agent]) = 2
    /\ sampled_token[neighbor] # sampled_token[agent]
    /\ memory[agent] = <<sampled_token[agent], sampled_token[neighbor]>>

\* C12: with neutral_change and both selections off, no listen() changes the
\* listener's memory, and a memory changes only in its owner's reinforce().
C12_NoMechanismListenIsIdle ==
    [][~p.neutral_change /\ ~p.interactor_selection /\ ~p.replicator_selection =>
           /\ (AtListen => memory' = memory)
           /\ \A a \in DOMAIN memory :
                  memory'[a] # memory[a] =>
                      \/ pc = "agent.reinforce" /\ a = agent
                      \/ pc = "neighbor.reinforce" /\ a = neighbor
    ]_vars

\* with every mechanism off both agents have listened to a token their own
\* memory does not hold, and the memories are as reinforce() left them
C12_Witness ==
    /\ pc = "agent.update"
    /\ ~p.neutral_change /\ ~p.interactor_selection /\ ~p.replicator_selection
    /\ sampled_token[agent] # sampled_token[neighbor]
    /\ Count(memory[agent], sampled_token[neighbor]) = 0
    /\ Count(memory[neighbor], sampled_token[agent]) = 0

\* memory after is memory before with n replacements by tok made one after another
RECURSIVE Replaced(_, _, _, _)
Replaced(before, after, tok, n) ==
    IF n = 0
    THEN after = before
    ELSE \E mid \in [DOMAIN before -> Tokens] :
             ReplacedOne(before, mid, tok) /\ Replaced(mid, after, tok, n - 1)

\* the listen() the next step makes left the memory a listen() with no
\* selection-driven replacement leaves: the neutral replacement, if enabled, alone
NoAdoption ==
    Replaced(memory[Listener], memory'[Listener], sampled_token[Speaker],
             IF p.neutral_change THEN 1 ELSE 0)

\* it left the memory one more replacement leaves
Adoption ==
    Replaced(memory[Listener], memory'[Listener], sampled_token[Speaker],
             IF p.neutral_change THEN 2 ELSE 1)

\* what a selection-driven adoption must follow: whether it happens when the
\* condition holds, the draw against selection_pressure permitting
AdoptionWhen(condition, drawn) ==
    IF ~condition \/ (drawn /\ ~FracLess(Zero, p.selection_pressure))
    THEN NoAdoption
    ELSE IF drawn /\ FracLess(p.selection_pressure, One)
         THEN NoAdoption \/ Adoption
         ELSE Adoption

\* C13: with both selections on, a listen() makes its selection-driven
\* replacement only when the listener's id is above n, the neighbour's id is at
\* most n, the listener produced B, the neighbour produced A and the draw against
\* selection_pressure succeeds (never at pressure 0, always at pressure 1); with
\* interactor_selection alone the two ids alone decide, with
\* replicator_selection alone the two tokens and the draw alone decide.
C13_SelectionConditions ==
    [][AtListen =>
           LET role == Listener > p.n /\ Speaker <= p.n
               fit == sampled_token[Listener] = "B" /\ sampled_token[Speaker] = "A"
           IN  /\ (p.interactor_selection /\ p.replicator_selection =>
                       AdoptionWhen(role /\ fit, TRUE))
               /\ (p.interactor_selection /\ ~p.replicator_selection =>
                       AdoptionWhen(role, FALSE))
               /\ (~p.interactor_selection /\ p.replicator_selection =>
                       AdoptionWhen(fit, TRUE))
    ]_vars

\* both selections on, no neutral change, pressure 1/2: the agent, above n, said
\* B to a neighbor that is at most n and said A, and has adopted the A
C13_Witness ==
    /\ pc = "neighbor.listen"
    /\ p.interactor_selection /\ p.replicator_selection /\ ~p.neutral_change
    /\ p.selection_pressure = Half
    /\ agent > p.n /\ neighbor <= p.n
    /\ sampled_token[agent] = "B" /\ sampled_token[neighbor] = "A"
    /\ memory[agent] = <<"A">>

-----------------------------------------------------------------------------
(* Claims about the reach of an interaction *)

\* what agent a holds
AgentState(a) == <<memory[a], sampled_token[a], A[a], updated_x[a], x[a]>>

\* C14: a step of an interaction changes nothing but the memory, the token, A
\* and updated_x of its two agents: every other agent, every x and the
\* networks, hierarchy, counters and records stay as they are; and a listen()
\* changes neither the memory nor the token of the agent listened to.
C14_InteractionIsLocal ==
    [][InInteraction =>
           /\ \A a \in DOMAIN memory :
                  a \notin {agent, neighbor} => AgentState(a)' = AgentState(a)
           /\ x' = x
           /\ <<p, networks, new_networks, partition_hierarchy, record_data,
                iteration, id_counter, t, running, recorded, reported>>' =
              <<p, networks, new_networks, partition_hierarchy, record_data,
                iteration, id_counter, t, running, recorded, reported>>
           /\ (AtListen =>
                   /\ memory'[Speaker] = memory[Speaker]
                   /\ sampled_token' = sampled_token)
    ]_vars

\* of three agents two have interacted under neutral change and changed their
\* memories by listening, the third has not spoken yet
C14_Witness ==
    /\ pc = "agent.update"
    /\ p.agents = 3
    /\ p.neutral_change
    /\ sampled_token[agent] # sampled_token[neighbor]
    /\ memory[agent] = <<sampled_token[neighbor]>>
    /\ memory[neighbor] = <<sampled_token[agent]>>
    /\ \E a \in DOMAIN memory : a \notin {agent, neighbor} /\ sampled_token[a] = "None"

-----------------------------------------------------------------------------
(* Claims about the neighbors inside a network *)

\* C15: in every active network every member agent has at least one neighbor
\* inside the network, so run_interactions always finds a neighbor for the agent
\* it chose; and the two agents of an interaction are distinct and adjacent in
\* the graph of the network they were chosen in.
C15_EveryMemberHasNeighbor ==
    /\ \A i \in DOMAIN networks :
           \A a \in Members(networks[i]) : neighbors(networks[i], a) # <<>>
    /\ pc # "crashed"
    /\ (InInteraction =>
            /\ agent # neighbor
            /\ {PositionOf(networks[ni], agent), PositionOf(networks[ni], neighbor)}
                   \in networks[ni].edges)

-----------------------------------------------------------------------------
(* Claims about the configuration *)

\* the configuration is one the simulation is defined for
ValidConfiguration ==
    /\ p.n \in 0..p.agents
    /\ p.memory_size > 0
    /\ ~FracLess(p.initial_frequency, Zero) /\ ~FracLess(One, p.initial_frequency)
    /\ ~FracLess(p.selection_pressure, Zero) /\ ~FracLess(One, p.selection_pressure)

\* C16: a configuration with n outside 0..agents, memory_size not above 0, or
\* initial_frequency or selection_pressure outside [0, 1] never gets past
\* setup: no step of a run and no interaction takes place under it.
C16_InvalidConfigurationIsRejected ==
    ~ValidConfiguration => t = 0 /\ ~InInteraction /\ pc \notin {"end", "done"}

-----------------------------------------------------------------------------
(* Claims about the partition schedule *)

IdsOf(nets) == {nets[i].id : i \in DOMAIN nets}

\* C17: the counter iteration is between 0 and 9 when a step ends; a partition
\* round takes place in the steps whose number is a positive multiple of 10 and
\* in no other; the round sets the counter to 0, partitions every active
\* network exactly once and replaces the active networks by exactly the
\* children, twice as many, before the step's stop test.
C17_PartitionEveryTenthStep ==
    [][/\ (pc = "iterate" =>
              /\ t > 0
              /\ (pc' = "partition") = (t % PartitionPeriod = 0)
              /\ pc' \in {"partition", "stopcheck"})
       /\ (pc' = "partition" => pc \in {"iterate", "partition"})
       /\ (pc' = "stopcheck" =>
              /\ pc \in {"iterate", "partition"}
              /\ iteration' \in 0..(PartitionPeriod - 1)
              /\ iteration' = t % PartitionPeriod)
       /\ (pc = "stopcheck" => iteration' = iteration /\ networks' = networks)
       /\ (pc = "partition" =>
              /\ iteration = 0
              /\ networks[ni].id \notin DOMAIN partition_hierarchy
              /\ \A i \in 1..(ni - 1) : networks[i].id \in DOMAIN partition_hierarchy
              /\ DOMAIN partition_hierarchy' =
                     DOMAIN partition_hierarchy \cup {networks[ni].id}
              /\ (pc' = "partition") = (ni < Len(networks))
              /\ (pc' = "partition" => ni' = ni + 1 /\ networks' = networks))
       /\ (pc = "partition" /\ pc' # "partition" =>
              /\ pc' = "stopcheck"
              /\ Len(networks') = 2 * Len(networks)
              /\ Cardinality(IdsOf(networks')) = Len(networks')
              /\ IdsOf(networks') =
                     UNION {Children(partition_hierarchy', id) : id \in IdsOf(networks)}
              /\ IdsOf(networks') \cap IdsOf(networks) = {})
       /\ (pc # "partition" => networks' = networks)
    ]_vars

\* the second partition round is over, before the stop test of step 20: four
\* networks, none of them one of the two that were active, and the counter at 0
C17_Witness ==
    /\ pc = "stopcheck"
    /\ t = 2 * PartitionPeriod
    /\ iteration = 0
    /\ Len(networks) = 4
    /\ Cardinality(DOMAIN partition_hierarchy) = 3
    /\ IdsOf(networks) \cap DOMAIN partition_hierarchy = {}

-----------------------------------------------------------------------------
(* Claims about recording *)

\* the <<step, network id>> of the values recorded
RecordedFor(records) == {<<r[1], r[2]>> : r \in records}

\* C18: record_data is set after setup, is cleared by the stop test that ends
\* the run and by nothing else, and is never set again; update() records one
\* value for each network active at the end of the step and for no other, for
\* step 0 (after setup) and every step before the stopping one, and nothing for
\* the stopping step, its record_data being cleared before its update().
C18_RecordsUntilStop ==
    /\ [](t = 0 => record_data)
    /\ [](~record_data => ~running /\ \A r \in recorded : r[1] < t)
    /\ [](\A s \in 0..(t - 1) : \E r \in recorded : r[1] = s)
    /\ [][/\ (record_data' => record_data)
          /\ (record_data /\ ~record_data' => pc = "stopcheck" /\ ~running')
          /\ (pc = "update" =>
                 /\ recorded \subseteq recorded'
                 /\ RecordedFor(recorded' \ recorded) =
                        IF record_data THEN {<<t, id>> : id \in IdsOf(networks)} ELSE {}
                 /\ Cardinality(recorded' \ recorded) =
                        Cardinality(RecordedFor(recorded' \ recorded)))
          /\ (pc # "update" => recorded' = recorded)
       ]_vars

\* the run of 11 agents has stopped in step 10, its first partition round: the
\* values of steps 0 to 9 are recorded, all for the original network, and the
\* two children have no value
C18_Witness ==
    /\ pc = "end"
    /\ ~record_data
    /\ t = PartitionPeriod
    /\ Len(networks) = 2
    /\ RecordedFor(recorded) = {<<s, p.agents + 1>> : s \in 0..(PartitionPeriod - 1)}

-----------------------------------------------------------------------------
(* Claims about the end of a run *)

\* C19: every run reaches its end STOPPED: a run is within its budget of
\* `steps` steps and never left before its end; once over it has ended through
\* end(), not running, with a smallest active network of at most 10 agents
\* unless the step budget ended it first, and nothing follows.
C19_EveryRunEndsStopped ==
    /\ t <= p.steps
    /\ pc # "crashed"
    /\ (pc = "done" =>
            /\ ~running
            /\ MinSize(networks) <= StopSize \/ t = p.steps)

-----------------------------------------------------------------------------
(* Claims about speak() *)

\* C20: the token a speak() produces is present in the speaker's memory at
\* that moment: when the agent has spoken and when the neighbor has spoken,
\* the memory of the one that spoke, which speak() does not change, holds the
\* token spoken; a memory of B alone never produces A, one of A alone never B.
C20_SpeaksFromMemory ==
    /\ (pc = "neighbor.speak" => sampled_token[agent] \in Range(memory[agent]))
    /\ (pc = "agent.reinforce" => sampled_token[neighbor] \in Range(memory[neighbor]))


====
